---- MODULE Spec2Model ----
(***************************************************************************)
(* Model of builder-framework-libopencm3 (src/libopencm3.py): the SCons     *)
(* script that maps a board to a directory of the libopencm3 tree, picks a  *)
(* linker script (find_ldscript) and recovers the list of source files from *)
(* the tree's Makefiles (parse_makefile_data, get_source_files).            *)
(*                                                                         *)
(* Paths and names are strings, handled character by character as the      *)
(* Python code and os.path handle them.                                     *)
(***************************************************************************)
EXTENDS Integers, Sequences, FiniteSets, TLC

VARIABLES
    board,          \* env.BoardConfig(): build.core, build.mcu, build.ldscript
    env,            \* the names of the construction variables env holds
    fs,             \* the regular files: path -> what a parse of the file finds
    dirs,           \* the directories
    pc,             \* position of the script
    root_dir,       \* module variable root_dir
    ld_src_dir,     \* argument src_dir of the call of find_ldscript
    ldscript_path,  \* module variable ldscript_path: <<>> is None, <<p>> a path
    src_dir,        \* argument src_dir of the call of get_source_files
    mkdata,         \* local mkdata of get_source_files
    idx,            \* position of "for include in mkdata['includes']"
    returned        \* value returned by get_source_files: <<>> not returned, <<list>>

vars == <<board, env, fs, dirs, pc, root_dir, ld_src_dir, ldscript_path, src_dir, mkdata, idx, returned>>

-----------------------------------------------------------------------------
(* Evaluation *)

\* Op(v), with v evaluated once: the recursive definitions below hand their
\* arguments on through Bind, so that no argument is evaluated again at every use
Bind(v, Op(_)) == CHOOSE r \in {Op(x) : x \in {v}} : TRUE

Bind2(v, w, Op(_, _)) == CHOOSE r \in {Op(x, y) : x \in {v}, y \in {w}} : TRUE

-----------------------------------------------------------------------------
(* Strings *)

Ch(s, i) == SubSeq(s, i, i)

startswith(s, p) == Len(p) <= Len(s) /\ SubSeq(s, 1, Len(p)) = p

endswith(s, p) == Len(p) <= Len(s) /\ SubSeq(s, Len(s) - Len(p) + 1, Len(s)) = p

\* s[a:b] of Python for 0 <= a <= b
Slice(s, a, b) ==
    LET hi == IF b < Len(s) THEN b ELSE Len(s)
    IN  IF a >= hi THEN "" ELSE SubSeq(s, a + 1, hi)

\* index of the first occurrence of the character c in s, 0 when there is none
FindChar(str, c) ==
    Bind(Bind(str, LAMBDA s : {i \in 1..Len(s) : Ch(s, i) = c}),
        LAMBDA at : IF at = {} THEN 0 ELSE CHOOSE i \in at : \A j \in at : i <= j)

\* index of the last occurrence of the character c in s, 0 when there is none
FindLastChar(str, c) ==
    Bind(Bind(str, LAMBDA s : {i \in 1..Len(s) : Ch(s, i) = c}),
        LAMBDA at : IF at = {} THEN 0 ELSE CHOOSE i \in at : \A j \in at : i >= j)

\* s.split(c) for a one-character separator
RECURSIVE split(_, _)
split(str, c) ==
    Bind2(str, FindChar(str, c),
         LAMBDA s, i : IF i = 0 THEN <<s>>
                       ELSE <<SubSeq(s, 1, i - 1)>>
                                \o Bind(SubSeq(s, i + 1, Len(s)), LAMBDA rest : split(rest, c)))

\* s.replace(old, new)
RECURSIVE replace(_, _, _)
replace(str, old, new) ==
  Bind(str, LAMBDA s :
    IF Len(s) < Len(old) \/ old = "" THEN s
    ELSE IF startswith(s, old)
         THEN new \o Bind(SubSeq(s, Len(old) + 1, Len(s)), LAMBDA rest : replace(rest, old, new))
         ELSE Ch(s, 1) \o Bind(SubSeq(s, 2, Len(s)), LAMBDA rest : replace(rest, old, new)))

\* the characters the model's names use, in ASCII order
Ascii == "$./0123456789:ABCDEFGHIJKLMNOPQRSTUVWXYZ_abcdefghijklmnopqrstuvwxyz"

Ord(c) == CHOOSE i \in 1..Len(Ascii) : Ch(Ascii, i) = c

\* a < b as Python compares str
RECURSIVE StrLess(_, _)
StrLess(a, b) ==
    IF b = "" THEN FALSE
    ELSE IF a = "" THEN TRUE
    ELSE IF Ch(a, 1) = Ch(b, 1)
         THEN Bind2(SubSeq(a, 2, Len(a)), SubSeq(b, 2, Len(b)), StrLess)
         ELSE Ord(Ch(a, 1)) < Ord(Ch(b, 1))

Range(s) == {s[i] : i \in 1..Len(s)}

RECURSIVE SetToSeq(_)
SetToSeq(S) ==
    IF S = {} THEN <<>>
    ELSE Bind(CHOOSE x \in S : TRUE, LAMBDA x : <<x>> \o Bind(S \ {x}, SetToSeq))

\* sorted(S) of Python for a collection of str
sorted(S) == SortSeq(SetToSeq(S), StrLess)

-----------------------------------------------------------------------------
(* os.path and os, on POSIX *)

sep == "/"

\* os.path.join(a, b)
join(a, b) ==
    Bind2(a, b, LAMBDA path, more : IF startswith(more, sep) THEN more
                                  ELSE IF path = "" \/ endswith(path, sep) THEN path \o more
                                  ELSE path \o sep \o more)

join3(a, b, c) == join(join(a, b), c)

\* the components normpath keeps, from the components of a path
RECURSIVE NormComps(_, _, _)
NormComps(comps, new_comps, initial_slash) ==
    IF Len(comps) = 0 THEN new_comps
    ELSE LET comp == Head(comps)
             kept == IF comp = "" \/ comp = "."
                     THEN new_comps
                     ELSE IF comp # ".."
                             \/ (~initial_slash /\ new_comps = <<>>)
                             \/ (new_comps # <<>> /\ new_comps[Len(new_comps)] = "..")
                     THEN Append(new_comps, comp)
                     ELSE IF new_comps # <<>>
                     THEN SubSeq(new_comps, 1, Len(new_comps) - 1)
                     ELSE new_comps
         IN  Bind2(Tail(comps), kept, LAMBDA rest, new : NormComps(rest, new, initial_slash))

RECURSIVE JoinComps(_)
JoinComps(comps) ==
    IF comps = <<>> THEN ""
    ELSE IF Len(comps) = 1 THEN comps[1]
    ELSE comps[1] \o sep \o Bind(Tail(comps), JoinComps)

\* os.path.normpath(path)
NormPath(path) ==
    IF path = "" THEN "."
    ELSE LET initial_slash == startswith(path, sep)
             \* POSIX keeps exactly two leading slashes
             slashes == IF startswith(path, "//") /\ ~startswith(path, "///")
                        THEN "//" ELSE IF initial_slash THEN sep ELSE ""
         IN  Bind(slashes \o JoinComps(NormComps(split(path, sep), <<>>, initial_slash)),
                 LAMBDA p : IF p = "" THEN "." ELSE p)

normpath(path) == Bind(path, NormPath)

\* os.path.dirname(p) of a normalized absolute path
dirname(p) ==
    Bind(FindLastChar(p, sep), LAMBDA i : IF i <= 1 THEN sep ELSE SubSeq(p, 1, i - 1))

\* os.path.basename(p)
basename(p) == SubSeq(p, FindLastChar(p, sep) + 1, Len(p))

\* the directories above a normalized absolute path
RECURSIVE Ancestors(_)
Ancestors(p) ==
    IF p = sep THEN {sep} ELSE Bind(dirname(p), LAMBDA d : {d} \cup Ancestors(d))

-----------------------------------------------------------------------------
(* The filesystem *)

FRAMEWORK_DIR == "/f"

PROJECT_DIR == "/p"

\* the system's lookup of the components of a path from the directory cur
RECURSIVE Walk(_, _)
Walk(comps, cur) ==
    IF comps = <<>> THEN cur
    ELSE IF cur \notin dirs THEN ""
    ELSE LET c == Head(comps)
             to == IF c = "" \/ c = "." THEN cur
                   ELSE IF c = ".." THEN dirname(cur)
                   ELSE join(cur, c)
         IN  Bind2(Tail(comps), to, Walk)

\* where the system finds an absolute path; "" when the lookup fails on the way
Realpath(path) ==
    Bind(path, LAMBDA p : IF startswith(p, sep)
                         THEN Bind(split(SubSeq(p, 2, Len(p)), sep),
                                  LAMBDA comps : Walk(comps, sep))
                         ELSE "")

isfile(p) == Realpath(p) \in DOMAIN fs

isdir(p) == Realpath(p) \in dirs

\* os.listdir(d) of a directory d: the names of its entries
listdir(d) ==
    Bind(Realpath(d),
        LAMBDA real : {basename(x) : x \in {y \in (DOMAIN fs \cup dirs) :
                                              y # sep /\ dirname(y) = real}})

-----------------------------------------------------------------------------
(* find_ldscript *)

\* matches, after the loop over sorted(listdir(src_dir))
LdMatches(dir) ==
    LET keep(item) == isfile(join(dir, item)) /\ endswith(item, ".ld")
    IN  Bind(SelectSeq(sorted(listdir(dir)), keep),
            LAMBDA kept : [i \in 1..Len(kept) |-> join(dir, kept[i])])

SelectLdscript_MatchesFirst(dir, board_ldscript) ==
    Bind(LdMatches(dir),
        LAMBDA matches :
            IF Len(matches) = 1 THEN <<matches[1]>>
            ELSE IF isfile(join(PROJECT_DIR, board_ldscript))
            THEN <<join(PROJECT_DIR, board_ldscript)>>
            ELSE IF isfile(join(dir, board_ldscript))
            THEN <<join(dir, board_ldscript)>>
            ELSE <<>>)

\* the value find_ldscript(dir) returns: <<>> is None
SelectLdscript(dir, board_ldscript) ==
    Bind(LdMatches(dir),
        LAMBDA matches :
            IF isfile(join(PROJECT_DIR, board_ldscript))
            THEN <<join(PROJECT_DIR, board_ldscript)>>
            ELSE IF Len(matches) = 1
            THEN <<matches[1]>>
            ELSE IF isfile(join(dir, board_ldscript))
            THEN <<join(dir, board_ldscript)>>
            ELSE <<>>)

-----------------------------------------------------------------------------
(* parse_makefile_data *)

\* data['vpath'] after the VPATH lines: each line's value split at ":"
RECURSIVE VpathOf(_)
VpathOf(lines) ==
    IF lines = <<>> THEN <<>> ELSE split(Head(lines), ":") \o Bind(Tail(lines), VpathOf)

ParseOk_NoAssert(makefile) == isfile(makefile)

\* open(makefile) succeeds, and the OBJS pattern matches
ParseOk(makefile) ==
    Bind(Realpath(makefile), LAMBDA real : real \in DOMAIN fs /\ fs[real].objs # <<>>)

\* the dictionary parse_makefile_data(makefile) returns
parse_makefile_data(makefile) ==
    Bind(fs[Realpath(makefile)],
        LAMBDA content : [includes |-> content.includes,
                          objs     |-> content.objs,
                          vpath    |-> <<"./">> \o VpathOf(content.vpaths)])

-----------------------------------------------------------------------------
(* get_source_files *)

Contains(list, v) == Bind2(list, v, LAMBDA l, x : \E i \in 1..Len(l) : l[i] = x)

\* for v in value: if v not in mkdata[key]: mkdata[key].append(v)
RECURSIVE AppendNew(_, _)
AppendNew(list, value) ==
    IF value = <<>> THEN list
    ELSE Bind2(IF Contains(list, Head(value)) THEN list ELSE Append(list, Head(value)),
              Tail(value), AppendNew)

Merge_AppendAll(mk, other) ==
    [includes |-> mk.includes \o other.includes,
     objs     |-> AppendNew(mk.objs, other.objs),
     vpath    |-> AppendNew(mk.vpath, other.vpath)]

Merge_SinglePass(mk, other) ==
    [includes |-> mk.includes,
     objs     |-> AppendNew(mk.objs, other.objs),
     vpath    |-> AppendNew(mk.vpath, other.vpath)]

\* mkdata after "for key, value in _mkdata.items()"
Merge(mk, other) ==
    [includes |-> AppendNew(mk.includes, other.includes),
     objs     |-> AppendNew(mk.objs, other.objs),
     vpath    |-> AppendNew(mk.vpath, other.vpath)]

\* src_file = obj_file[:-1] + "c"
SrcFile(obj_file) == Slice(obj_file, 0, Len(obj_file) - 1) \o "c"

\* src_path for one search path
SrcPath(dir, search_path, obj_file) == normpath(join3(dir, search_path, SrcFile(obj_file)))

\* the entry appended to sources for a src_path
BuildPath(src_path) ==
    join3("$BUILD_DIR", "FrameworkLibOpenCM3", replace(src_path, FRAMEWORK_DIR \o sep, ""))

RECURSIVE FirstMatch_Last(_, _, _)
FirstMatch_Last(dir, vpath, obj_file) ==
    IF vpath = <<>> THEN <<>>
    ELSE Bind2(Bind(Tail(vpath), LAMBDA rest : FirstMatch_Last(dir, rest, obj_file)),
              SrcPath(dir, Head(vpath), obj_file),
              LAMBDA later, src_path :
                  IF later # <<>> THEN later
                  ELSE IF isfile(src_path) THEN <<BuildPath(src_path)>> ELSE <<>>)

FirstMatch_Unchecked(dir, vpath, obj_file) ==
    IF vpath = <<>> THEN <<>>
    ELSE <<BuildPath(SrcPath(dir, Head(vpath), obj_file))>>

\* what the loop over mkdata['vpath'] appends for one obj_file: nothing or one entry
RECURSIVE FirstMatch(_, _, _)
FirstMatch(dir, vpath, obj_file) ==
    IF vpath = <<>> THEN <<>>
    ELSE Bind(SrcPath(dir, Head(vpath), obj_file),
             LAMBDA src_path :
                 IF isfile(src_path) THEN <<BuildPath(src_path)>>
                 ELSE Bind(Tail(vpath), LAMBDA rest : FirstMatch(dir, rest, obj_file)))

\* sources after the loop over mkdata['objs']
RECURSIVE Sources(_, _, _)
Sources(dir, objs, vpath) ==
    IF objs = <<>> THEN <<>>
    ELSE FirstMatch(dir, vpath, Head(objs))
             \o Bind(Tail(objs), LAMBDA rest : Sources(dir, rest, vpath))

-----------------------------------------------------------------------------
(* The script *)

SelectRootDir_Slice67(core, mcu) ==
    IF core = "tivac" THEN join(join(FRAMEWORK_DIR, "lib"), "lm4f")
    ELSE IF core = "stm32" THEN join3(join(FRAMEWORK_DIR, "lib"), core, Slice(mcu, 6, 8))
    ELSE join(FRAMEWORK_DIR, "lib")

\* root_dir after the dispatch on build.core
SelectRootDir(core, mcu) ==
    IF core = "tivac" THEN join(join(FRAMEWORK_DIR, "lib"), "lm4f")
    ELSE IF core = "stm32" THEN join3(join(FRAMEWORK_DIR, "lib"), core, Slice(mcu, 5, 7))
    ELSE join(FRAMEWORK_DIR, "lib")

EmptyData == [includes |-> <<>>, objs |-> <<>>, vpath |-> <<>>]

\* cap on the iterations of the include loop
MaxIter == 8

ComputeRootDir ==
    /\ pc = "start"
    /\ root_dir' = SelectRootDir(board.core, board.mcu)
    /\ pc' = "find_ldscript"
    /\ UNCHANGED <<board, env, fs, dirs, ld_src_dir, ldscript_path, src_dir, mkdata, idx, returned>>

\* ldscript_path = find_ldscript(root_dir), and the assertion that env holds
\* LDSCRIPT_PATH
FindLdscript ==
    /\ pc = "find_ldscript"
    /\ isdir(root_dir)
    /\ ld_src_dir' = root_dir
    /\ ldscript_path' = SelectLdscript(root_dir, board.ldscript)
    /\ pc' = IF "LDSCRIPT_PATH" \in env THEN "get_source_files" ELSE "raised"
    /\ UNCHANGED <<board, env, fs, dirs, root_dir, src_dir, mkdata, idx, returned>>

\* listdir(src_dir) raises when src_dir is no directory
FindLdscriptRaises ==
    /\ pc = "find_ldscript"
    /\ ~isdir(root_dir)
    /\ ld_src_dir' = root_dir
    /\ pc' = "raised"
    /\ UNCHANGED <<board, env, fs, dirs, root_dir, ldscript_path, src_dir, mkdata, idx, returned>>

\* get_source_files(root_dir) is entered and parses the root Makefile
ParseRoot ==
    /\ pc = "get_source_files"
    /\ ParseOk(join(root_dir, "Makefile"))
    /\ src_dir' = root_dir
    /\ mkdata' = parse_makefile_data(join(root_dir, "Makefile"))
    /\ idx' = 0
    /\ pc' = "merge"
    /\ UNCHANGED <<board, env, fs, dirs, root_dir, ld_src_dir, ldscript_path, returned>>

ParseRootRaises ==
    /\ pc = "get_source_files"
    /\ ~ParseOk(join(root_dir, "Makefile"))
    /\ src_dir' = root_dir
    /\ pc' = "raised"
    /\ UNCHANGED <<board, env, fs, dirs, root_dir, ld_src_dir, ldscript_path, mkdata, idx, returned>>

\* the file the current iteration of the include loop parses
IncludedMakefile == normpath(join(src_dir, mkdata.includes[idx + 1]))

\* one iteration of "for include in mkdata['includes']"; the guard on MaxIter caps
\* the iterations of the model and is never what stops the loop
MergeInclude ==
    /\ pc = "merge"
    /\ idx < Len(mkdata.includes)
    /\ idx < MaxIter
    /\ ParseOk(IncludedMakefile)
    /\ mkdata' = Bind(parse_makefile_data(IncludedMakefile),
                     LAMBDA _mkdata : Merge(mkdata, _mkdata))
    /\ idx' = idx + 1
    /\ UNCHANGED <<board, env, fs, dirs, pc, root_dir, ld_src_dir, ldscript_path, src_dir, returned>>

MergeIncludeRaises ==
    /\ pc = "merge"
    /\ idx < Len(mkdata.includes)
    /\ idx < MaxIter
    /\ ~ParseOk(IncludedMakefile)
    /\ pc' = "raised"
    /\ UNCHANGED <<board, env, fs, dirs, root_dir, ld_src_dir, ldscript_path, src_dir, mkdata, idx,
                   returned>>

\* the include loop is over: the sources are located and returned
LocateSources ==
    /\ pc = "merge"
    /\ idx = Len(mkdata.includes)
    /\ returned' = <<Sources(src_dir, mkdata.objs, mkdata.vpath)>>
    /\ pc' = "done"
    /\ UNCHANGED <<board, env, fs, dirs, root_dir, ld_src_dir, ldscript_path, src_dir, mkdata, idx>>

Next ==
    \/ ComputeRootDir
    \/ FindLdscript
    \/ FindLdscriptRaises
    \/ ParseRoot
    \/ ParseRootRaises
    \/ MergeInclude
    \/ MergeIncludeRaises
    \/ LocateSources

-----------------------------------------------------------------------------
(* The inputs: the board and the tree the script runs on *)

\* most include lines of the root Makefile
MaxInc == 2

\* most VPATH lines of the root Makefile
MaxVp == 1

\* most object names of the root Makefile's OBJS
MaxObjs == 2

SeqsUpTo(S, n) == UNION {[1..k -> S] : k \in 0..n}

\* what the three patterns of parse_makefile_data find in a file: the values of its
\* include lines, the values of its VPATH lines, the tokens of its first OBJS
\* assignment (none when the pattern does not match)
Rules(inc, vp, objs) == [includes |-> inc, vpaths |-> vp, objs |-> objs]

\* a file that holds none of the three
Plain == Rules(<<>>, <<>>, <<>>)

F1 == "/f/lib/stm32/f1"

Stm32F1 == [core |-> "stm32", mcu |-> "stm32f103cb", ldscript |-> ""]

IncNames == {"A", "../B", "Makefile"}

\* the include lines of an included file: none or one
SubIncludes == {<<>>} \cup {<<n>> : n \in IncNames}

\* the files of a set of paths, each Plain
PlainFiles(paths) == [p \in paths |-> Plain]

\* f and g are functions on disjoint sets of paths
Both(f, g) == [p \in DOMAIN f \cup DOMAIN g |-> IF p \in DOMAIN f THEN f[p] ELSE g[p]]

\* a file at path p with one of the contents cs, or no file there
Maybe(p, cs) == {PlainFiles({})} \cup {[q \in {p} |-> c] : c \in cs}

\* trees of rule files: the root Makefile, A beside it and B one level up, each
\* present or not, with or without OBJS, including any of the three
MergeTrees ==
    {Both(Both(r, a), Both(b, PlainFiles({F1 \o "/a.c", F1 \o "/s/b.c", F1 \o "/e/c.c"}))) :
        r \in Maybe(F1 \o "/Makefile",
                    {Rules(i, <<>>, o) : i \in SeqsUpTo(IncNames, MaxInc),
                                         o \in {<<>>, <<"a.o">>}}),
        a \in Maybe(F1 \o "/A",
                    {Rules(i, <<"s">>, o) : i \in SubIncludes,
                                            o \in {<<>>, <<"b.o">>}}),
        b \in Maybe("/f/lib/stm32/B",
                    {Rules(i, <<"s:e">>, o) : i \in SubIncludes,
                                              o \in {<<>>, <<"c.o", "a.o">>}})}

VpValues == {"./", "s", "s:e"}

ObjNames == {"a.o", "b.o"}

SrcCandidates == {F1 \o "/a.c", F1 \o "/s/a.c", F1 \o "/s/b.c", F1 \o "/e/b.c"}

\* trees of sources: a root Makefile with any search paths and objects, which may
\* include A, and any of the candidate sources
LocateTrees ==
    {Both(Both([p \in {F1 \o "/Makefile"} |-> Rules(i, v, o)],
               [p \in {F1 \o "/A"} |-> Rules(<<>>, <<"e">>, <<"b.o">>)]),
          PlainFiles(c)) :
        i \in {<<>>, <<"A">>},
        v \in SeqsUpTo(VpValues, MaxVp),
        o \in SeqsUpTo(ObjNames, MaxObjs) \ {<<>>},
        c \in SUBSET SrcCandidates}

LdscriptValues == {"", "x.ld", "../x.ld", "/o/x.ld"}

LdCandidates ==
    {F1 \o "/x.ld", F1 \o "/y.ld", F1 \o "/d.ld/k", "/p/x.ld", "/x.ld", "/o/x.ld"}

\* trees of linker scripts: any of the candidates beside a plain root Makefile
LdTrees ==
    {Both([p \in {F1 \o "/Makefile"} |-> Rules(<<>>, <<>>, <<"a.o">>)], PlainFiles(c)) :
        c \in SUBSET LdCandidates}

Cores == {"tivac", "stm32", "lpc11xx"}

Mcus == {"stm32f103cb", "stm32f407vg", "lm4f120h5qr", "lm4f", "lm4f12"}

\* a tree with a Makefile in several target directories
BoardTree ==
    Both([p \in {"/f/lib/lm4f/Makefile", F1 \o "/Makefile", "/f/lib/stm32/f4/Makefile"}
             |-> Rules(<<>>, <<>>, <<"a.o">>)],
         PlainFiles({"/f/lib/lm4f/a.c", F1 \o "/a.c", "/f/lib/lm4f/x.ld"}))

\* the directories of a tree: FRAMEWORK_DIR and PROJECT_DIR, every directory that
\* holds a file, and the directories above them
DirsOf(files) ==
    UNION {Ancestors(p) : p \in DOMAIN files \cup {FRAMEWORK_DIR, PROJECT_DIR}}
        \cup {FRAMEWORK_DIR, PROJECT_DIR}

\* the inputs that vary the rule files and the board
\* the environment the platform hands to the script
PlatformEnv == {"PROJECT_DIR", "LDSCRIPT_PATH", "BOARD"}

LoopInputs ==
    {[board |-> Stm32F1, env |-> PlatformEnv, fs |-> t] : t \in MergeTrees}
        \cup {[board |-> [core |-> c, mcu |-> m, ldscript |-> ""], env |-> e, fs |-> BoardTree] :
                 c \in Cores, m \in Mcus, e \in {PlatformEnv, PlatformEnv \ {"LDSCRIPT_PATH"}}}

Inputs ==
    LoopInputs
        \cup {[board |-> Stm32F1, env |-> PlatformEnv, fs |-> t] : t \in LocateTrees}
        \cup {[board |-> [Stm32F1 EXCEPT !.ldscript = l], env |-> PlatformEnv, fs |-> t] :
                 l \in LdscriptValues, t \in LdTrees}

\* the script starts on the input in
Start(in) ==
    /\ board = in.board /\ env = in.env /\ fs = in.fs /\ dirs = DirsOf(in.fs)
    /\ pc = "start"
    /\ root_dir = ""
    /\ ld_src_dir = ""
    /\ ldscript_path = <<>>
    /\ src_dir = ""
    /\ mkdata = EmptyData
    /\ idx = 0
    /\ returned = <<>>

Init == \E in \in Inputs : Start(in)

Spec == Init /\ [][Next]_vars

InitLoop == \E in \in LoopInputs : Start(in)

\* the runs on the inputs that vary the rule files; the script is one sequential
\* run, so a step that can be taken is taken
FairSpec == InitLoop /\ [][Next]_vars /\ WF_vars(Next)

-----------------------------------------------------------------------------
(* Vocabulary of the properties *)

\* find_ldscript has returned
LdscriptChosen == pc \in {"get_source_files", "merge", "done"}

\* the path the project-override rule tests
ProjectFile == join(PROJECT_DIR, board.ldscript)

\* the '.ld' files directly in the directory dir
LdFilesIn(dir) == {p \in DOMAIN fs : dirname(p) = Realpath(dir) /\ endswith(p, ".ld")}

\* the file an include directive names: resolved relative to the root directory
IncludeTarget(dir, inc) == Realpath(normpath(join(dir, inc)))

\* the rule files reachable from the files S through chains of include directives
RECURSIVE ReachFrom(_, _)
ReachFrom(dir, S) ==
    Bind(S \cup {IncludeTarget(dir, inc) :
                    inc \in UNION {Range(fs[f].includes) : f \in S \cap DOMAIN fs}},
        LAMBDA N : IF N = S THEN S ELSE ReachFrom(dir, N))

\* the root rule file of dir and every file reachable from it
RuleFiles(dir) == ReachFrom(dir, {Realpath(join(dir, "Makefile"))})

\* a rule file that does not exist or lacks the OBJS assignment
Fatal(f) == f \notin DOMAIN fs \/ fs[f].objs = <<>>

\* the positions of the merged search-path list under which obj's source exists
Hits(obj) ==
    {i \in 1..Len(mkdata.vpath) : isfile(SrcPath(src_dir, mkdata.vpath[i], obj))}

\* the entries some search path could give for obj
EntriesOf(obj) ==
    {BuildPath(SrcPath(src_dir, mkdata.vpath[i], obj)) : i \in 1..Len(mkdata.vpath)}

Least(S) == CHOOSE i \in S : \A j \in S : i <= j

\* the entry of obj under the earliest search path that has its source
FirstEntry(obj) == BuildPath(SrcPath(src_dir, mkdata.vpath[Least(Hits(obj))], obj))

NoDuplicates(list) == \A i, j \in 1..Len(list) : list[i] = list[j] => i = j

-----------------------------------------------------------------------------
(* find_ldscript *)

\* C1: find_ldscript returns the project-side path whenever that file exists, else
\* the sole '.ld' file of src_dir when there is exactly one, else the board's
\* ldscript joined to src_dir when that file exists, else None.
C1_LdscriptPriority ==
    LdscriptChosen =>
        ldscript_path =
            IF isfile(ProjectFile) THEN <<ProjectFile>>
            ELSE IF Cardinality(LdFilesIn(ld_src_dir)) = 1
            THEN <<join(ld_src_dir, basename(CHOOSE p \in LdFilesIn(ld_src_dir) : TRUE))>>
            ELSE IF isfile(join(ld_src_dir, board.ldscript))
            THEN <<join(ld_src_dir, board.ldscript)>>
            ELSE <<>>

\* the project file exists beside exactly one candidate, and the project file is chosen
C1_Witness ==
    /\ LdscriptChosen
    /\ isfile(ProjectFile)
    /\ Cardinality(LdFilesIn(ld_src_dir)) = 1
    /\ ldscript_path = <<ProjectFile>>

\* two candidates, no project file, no named match: None
C1_WitnessNone ==
    /\ LdscriptChosen
    /\ ~isfile(ProjectFile)
    /\ Cardinality(LdFilesIn(ld_src_dir)) >= 2
    /\ ldscript_path = <<>>

\* C2: when find_ldscript returns through the project-override rule, the file it
\* returns is located under PROJECT_DIR, whatever build.ldscript is.
C2_OverrideUnderProjectDir ==
    (LdscriptChosen /\ isfile(ProjectFile)) =>
        startswith(Realpath(ldscript_path[1]), PROJECT_DIR \o sep)

-----------------------------------------------------------------------------
(* The dispatch on the board *)

\* characters 6 and 7 of a string, as far as it has them
Chars6And7(s) ==
    (IF Len(s) >= 6 THEN Ch(s, 6) ELSE "") \o (IF Len(s) >= 7 THEN Ch(s, 7) ELSE "")

\* C8: root_dir is <framework>/lib/lm4f for core 'tivac', <framework>/lib/stm32/
\* <characters 6 and 7 of build.mcu> for core 'stm32' and <framework>/lib otherwise,
\* and find_ldscript and get_source_files both receive it.
C8_RootDirDispatch ==
    /\ pc # "start" =>
          root_dir = IF board.core = "tivac" THEN FRAMEWORK_DIR \o "/lib/lm4f"
                     ELSE IF board.core = "stm32"
                     THEN FRAMEWORK_DIR \o "/lib/stm32/" \o Chars6And7(board.mcu)
                     ELSE FRAMEWORK_DIR \o "/lib"
    /\ LdscriptChosen => ld_src_dir = root_dir
    /\ pc \in {"merge", "done"} => src_dir = root_dir /\ src_dir = ld_src_dir

\* an stm32 board other than the F1 has run through both calls
C8_Witness ==
    /\ pc = "done"
    /\ board.core = "stm32"
    /\ board.mcu = "stm32f407vg"
    /\ ld_src_dir = "/f/lib/stm32/f4"
    /\ src_dir = "/f/lib/stm32/f4"

-----------------------------------------------------------------------------
(* get_source_files: locating the sources *)

\* C3: an object whose source exists under several search paths gets the entry of
\* the earliest of them in the merged order ('./' first, then the root file's
\* paths, then the includes'), and no entry of a later one.
C3_FirstMatchWins ==
    pc = "done" =>
        /\ mkdata.vpath[1] = "./"
        /\ LET root == parse_makefile_data(join(src_dir, "Makefile")).vpath
           IN  SubSeq(mkdata.vpath, 1, Len(root)) = root
        /\ \A obj \in Range(mkdata.objs) :
              Hits(obj) # {} =>
                  /\ FirstEntry(obj) \in Range(returned[1])
                  /\ \A e \in EntriesOf(obj) \ {FirstEntry(obj)} : e \notin Range(returned[1])

\* an object's source exists at two places of the search-path list
C3_Witness ==
    /\ pc = "done"
    /\ \E obj \in Range(mkdata.objs) :
          \E i, j \in Hits(obj) :
              /\ i < j
              /\ SrcPath(src_dir, mkdata.vpath[i], obj) # SrcPath(src_dir, mkdata.vpath[j], obj)

\* C4: an object whose source exists under no search path contributes no entry,
\* and get_source_files still returns the entries of the resolvable objects.
C4_UnresolvedOmitted ==
    pc = "done" =>
        /\ \A obj \in Range(mkdata.objs) :
              IF Hits(obj) = {}
              THEN EntriesOf(obj) \cap Range(returned[1]) = {}
              ELSE FirstEntry(obj) \in Range(returned[1])
        /\ Len(returned[1]) =
              Cardinality({k \in 1..Len(mkdata.objs) : Hits(mkdata.objs[k]) # {}})

\* one object resolves and another does not
C4_Witness ==
    /\ pc = "done"
    /\ \E a, b \in Range(mkdata.objs) : Hits(a) = {} /\ Hits(b) # {}
    /\ returned[1] # <<>>

\* the entries get_source_files is to return: one for each resolvable object, in
\* the order of the merged object list
RECURSIVE EntriesInOrder(_)
EntriesInOrder(objs) ==
    IF objs = <<>> THEN <<>>
    ELSE (IF Hits(Head(objs)) = {} THEN <<>> ELSE <<FirstEntry(Head(objs))>>)
             \o EntriesInOrder(Tail(objs))

\* C10: the returned list holds at most one path per object name, in the order of
\* the object names in the merged object list.
C10_OnePathPerObjectInOrder ==
    pc = "done" =>
        /\ \A obj \in Range(mkdata.objs) :
              Cardinality({k \in 1..Len(returned[1]) : returned[1][k] \in EntriesOf(obj)}) <= 1
        /\ returned[1] = EntriesInOrder(mkdata.objs)

\* the part of C10 that is about the order alone
OrderOfObjects == pc = "done" => returned[1] = EntriesInOrder(mkdata.objs)

-----------------------------------------------------------------------------
(* get_source_files: merging the rule files *)

\* C5: when the root rule file or a rule file reached through includes does not
\* exist or lacks OBJS, get_source_files returns nothing: a list is returned only
\* when every reachable rule file is there and well-formed, and never after a raise.
C5_FatalErrorsAbort ==
    /\ returned # <<>> => pc = "done" /\ \A f \in RuleFiles(root_dir) : ~Fatal(f)
    /\ pc = "raised" => returned = <<>>

\* the script raised in the include loop after a first merge, on a file the root
\* does not name itself
C5_Witness ==
    /\ pc = "raised"
    /\ idx >= 1
    /\ mkdata.objs # <<>>
    /\ returned = <<>>
    /\ Fatal(IncludeTarget(src_dir, mkdata.includes[idx + 1]))
    /\ ~Contains(fs[Realpath(join(src_dir, "Makefile"))].includes, mkdata.includes[idx + 1])

\* C6: once the merging is over, the merged rule set holds every object name and
\* every search path of every file reachable from the root through includes.
C6_TransitiveFlattening ==
    (pc = "done" \/ (pc = "merge" /\ idx = Len(mkdata.includes))) =>
        \A f \in RuleFiles(src_dir) \cap DOMAIN fs :
            /\ \A o \in Range(fs[f].objs) : Contains(mkdata.objs, o)
            /\ \A v \in Range(VpathOf(fs[f].vpaths)) : Contains(mkdata.vpath, v)

\* B is reached only through A, and what it declares is in the merged rule set
C6_Witness ==
    /\ pc = "done"
    /\ ~Contains(fs[Realpath(join(src_dir, "Makefile"))].includes, "../B")
    /\ Contains(mkdata.includes, "../B")
    /\ Contains(mkdata.objs, "c.o")
    /\ Contains(mkdata.vpath, "e")

\* C7: after the initial parse and after every merge step, none of the merged
\* lists holds a value twice, and the returned list names no file twice.
C7_NoDuplicates ==
    /\ pc \in {"merge", "done"} =>
          /\ NoDuplicates(mkdata.includes)
          /\ NoDuplicates(mkdata.vpath)
          /\ NoDuplicates(mkdata.objs)
    /\ pc = "done" => NoDuplicates(returned[1])

\* C9: when every reachable rule file exists and is well-formed, the include loop
\* comes to its end, cycles of includes included; the cap on its iterations is
\* never what ends it.
C9_IncludeLoopTerminates ==
    /\ [](Len(mkdata.includes) <= MaxIter)
    /\ (pc = "merge" /\ \A f \in RuleFiles(src_dir) : ~Fatal(f)) ~> (pc = "done")

\* the loop ended on a tree whose includes lead back to the root Makefile
C9_Witness ==
    /\ pc = "done"
    /\ Contains(mkdata.includes, "Makefile")
    /\ \E f \in RuleFiles(src_dir) :
          \E inc \in Range(fs[f].includes) : IncludeTarget(src_dir, inc) = f

====
